---- MODULE Spec2Model ----
(***************************************************************************)
(* A model of ExcelExtractor (src/src/excel_extractor.py): the extraction  *)
(* of workbooks from a directory tree, the rebuild of the search index and *)
(* the queries over it.                                                    *)
(*                                                                         *)
(* Text is modelled as a sequence of tokens; the separators "\t" and "\n"  *)
(* are tokens of their own.  A Python call that may raise is modelled by   *)
(* an operator whose result says whether it returned or raised.            *)
(***************************************************************************)
EXTENDS Integers, Sequences, FiniteSets, TLC

VARIABLES
    fs,         \* the qualifying and other files under directory_path, in os.walk order
    pd,         \* outcome of the last process_directory call
    workbooks,  \* the list process_directory returned
    wbout,      \* the last direct process_workbook call and its outcome
    sheetIn,    \* the arguments of a direct process_sheet call
    sheetOut,   \* its outcome
    toc,        \* the index directory as a reader finds it (the latest TOC)
    pending,    \* documents buffered by the open writer, not yet committed
    todo,       \* documents index_content still has to add
    ipc,        \* where the index_content call is
    iargs,      \* the workbooks passed to the current / last index_content call
    prior,      \* the documents committed when that call began
    obs,        \* what a reader last observed, and when
    hits        \* the last query and the list it returned

vars == <<fs, pd, workbooks, wbout, sheetIn, sheetOut, toc, pending, todo, ipc,
          iargs, prior, obs, hits>>

extractVars == <<fs, pd, workbooks, wbout>>
sheetVars == <<sheetIn, sheetOut>>
indexVars == <<toc, pending, todo, ipc, iargs, prior>>

None == "None"
Tab == "\t"
Newline == "\n"

(***************************************************************************)
(* Sequence helpers.                                                       *)
(***************************************************************************)
RECURSIVE Join(_, _)
\* sep.join(parts), each part a token sequence
Join(parts, sep) ==
    IF Len(parts) = 0 THEN <<>>
    ELSE IF Len(parts) = 1 THEN parts[1]
    ELSE parts[1] \o <<sep>> \o Join(Tail(parts), sep)

RECURSIVE Flatten(_)
Flatten(ss) == IF Len(ss) = 0 THEN <<>> ELSE ss[1] \o Flatten(Tail(ss))

Min(a, b) == IF a <= b THEN a ELSE b

(***************************************************************************)
(* extract_text_from_sheet: every row tab-joined, None rendered as '',     *)
(* rows newline-joined.  Both formats render alike.                        *)
(***************************************************************************)
CellStr(cell) == IF cell = None THEN <<>> ELSE <<cell>>

RowText(row) == Join([i \in 1..Len(row) |-> CellStr(row[i])], Tab)

extract_text_from_sheet(sheet) ==
    Join([r \in 1..Len(sheet.grid) |-> RowText(sheet.grid[r])], Newline)

(***************************************************************************)
(* process_sheet.  A sheet carries its grid, whether reading its rows      *)
(* works (readOk), whether SheetImageLoader(sheet) works (loaderOk) and    *)
(* its embedded images in discovery order, each with whether access and    *)
(* OCR work for it (ok) and the text OCR recognises.                       *)
(***************************************************************************)
RECURSIVE ImageLoop(_, _)
\* lines 68-71: the for loop sits inside one try; the first image that
\* raises ends the loop, images appended so far stay in the list
ImageLoop(imgs, acc) ==
    IF Len(imgs) = 0 THEN acc
    ELSE IF ~imgs[1].ok THEN acc
    ELSE ImageLoop(Tail(imgs), Append(acc, <<imgs[1].coord, imgs[1].text>>))

ImagesOf(sheet, is_xlsx, read_only) ==
    IF ~is_xlsx THEN <<>>
    ELSE IF read_only THEN <<>>
    ELSE IF ~sheet.loaderOk THEN <<>>
    ELSE ImageLoop(sheet.imgs, <<>>)

process_sheet(sheet, sheet_name, is_xlsx, read_only) ==
    IF ~sheet.readOk THEN [raised |-> TRUE]
    ELSE [raised |-> FALSE,
          content |-> [name |-> sheet_name,
                       cell_text |-> extract_text_from_sheet(sheet),
                       images |-> ImagesOf(sheet, is_xlsx, read_only)]]

(***************************************************************************)
(* File names are sequences of characters, so that endswith, startswith    *)
(* and substring tests are computed.  A file carries its directory part    *)
(* (relative to directory_path), whether the first open works (read-only   *)
(* openpyxl for .xlsx, xlrd for .xls), whether the full-parse openpyxl     *)
(* open works, and its sheets; a sheet carries whether the sheet object    *)
(* can be obtained (getOk).                                                *)
(***************************************************************************)
StartsWith(s, p) == Len(s) >= Len(p) /\ SubSeq(s, 1, Len(p)) = p

EndsWith(s, p) == Len(s) >= Len(p) /\ SubSeq(s, Len(s) - Len(p) + 1, Len(s)) = p

Contains(s, p) == \E i \in 0..(Len(s) - Len(p)) : SubSeq(s, i + 1, i + Len(p)) = p

DotXlsx == <<".", "x", "l", "s", "x">>
DotXls == <<".", "x", "l", "s">>
LockPrefix == <<"~", "$">>

relpath(file) == file.dir \o file.name

RECURSIVE XlsxLoop(_, _, _)
\* lines 106-112: a failing sheet is logged by its name and skipped
XlsxLoop(shs, read_only, acc) ==
    IF Len(shs) = 0 THEN acc
    ELSE LET sh == shs[1]
             r == process_sheet(sh, sh.name, TRUE, read_only)
         IN IF sh.getOk /\ ~r.raised
            THEN XlsxLoop(Tail(shs), read_only, Append(acc, r.content))
            ELSE XlsxLoop(Tail(shs), read_only, acc)

RECURSIVE XlsLoop(_, _, _)
\* lines 115-121: the handler formats sheet.name; the local `sheet` is bound
\* only once some wb.sheet_by_index call of this workbook has returned, so
\* the handler itself raises when the first sheet cannot be obtained
XlsLoop(shs, bound, acc) ==
    IF Len(shs) = 0 THEN [raised |-> FALSE, sheets |-> acc]
    ELSE LET sh == shs[1]
             r == process_sheet(sh, sh.name, FALSE, FALSE)
         IN IF ~sh.getOk
            THEN IF bound THEN XlsLoop(Tail(shs), bound, acc)
                 ELSE [raised |-> TRUE, sheets |-> acc]
            ELSE IF r.raised THEN XlsLoop(Tail(shs), TRUE, acc)
            ELSE XlsLoop(Tail(shs), TRUE, Append(acc, r.content))

WorkbookContent(file, sheets) ==
    [filename |-> file.name, relative_path |-> relpath(file), sheets |-> sheets]

NoWorkbook == [filename |-> <<>>, relative_path |-> <<>>, sheets |-> <<>>]

Returned(wb) == [kind |-> "content", wb |-> wb]
ReturnedNone == [kind |-> "none", wb |-> NoWorkbook]
Raised == [kind |-> "raised", wb |-> NoWorkbook]

process_workbook(file) ==
    IF EndsWith(file.name, DotXlsx)
    THEN IF file.firstOk
         THEN \* wb read-only, is_xlsx = True
              Returned(WorkbookContent(file, XlsxLoop(file.sheets, TRUE, <<>>)))
         ELSE IF ~file.fullOk
         THEN ReturnedNone
         ELSE \* line 97 binds wb, nothing binds is_xlsx: line 105 raises
              \* UnboundLocalError
              Raised
    ELSE IF EndsWith(file.name, DotXls)
    THEN IF file.firstOk
         THEN LET r == XlsLoop(file.sheets, FALSE, <<>>)
              IN IF r.raised THEN Raised
                 ELSE Returned(WorkbookContent(file, r.sheets))
         ELSE ReturnedNone
    ELSE \* ValueError("Unsupported file format"), caught at line 92
         ReturnedNone

Qualifies(file) ==
    /\ EndsWith(file.name, DotXlsx) \/ EndsWith(file.name, DotXls)
    /\ ~StartsWith(file.name, LockPrefix)

RECURSIVE WalkLoop(_, _)
\* lines 138-144: a WorkbookContent is always truthy; an exception out of
\* process_workbook leaves process_directory
WalkLoop(files, acc) ==
    IF Len(files) = 0 THEN [raised |-> FALSE, workbooks |-> acc]
    ELSE IF ~Qualifies(files[1]) THEN WalkLoop(Tail(files), acc)
    ELSE LET r == process_workbook(files[1])
         IN IF r.kind = "raised" THEN [raised |-> TRUE, workbooks |-> <<>>]
            ELSE IF r.kind = "none" THEN WalkLoop(Tail(files), acc)
            ELSE WalkLoop(Tail(files), Append(acc, r.wb))

process_directory(files) == WalkLoop(files, <<>>)

(***************************************************************************)
(* index_content, lines 148-169.  One document per sheet; image_content    *)
(* is the image texts newline-joined.                                      *)
(***************************************************************************)
Document(workbook, sheet) ==
    [filename |-> workbook.filename,
     relative_path |-> workbook.relative_path,
     sheet_name |-> sheet.name,
     content |-> sheet.cell_text,
     image_content |->
         Join([i \in 1..Len(sheet.images) |-> sheet.images[i][2]], Newline)]

\* the (workbook, sheet) pairs in the order of the two nested loops
SheetsToAdd(wbs) ==
    Flatten([w \in 1..Len(wbs) |->
                [k \in 1..Len(wbs[w].sheets) |->
                    [workbook |-> wbs[w], sheet |-> wbs[w].sheets[k]]]])

(***************************************************************************)
(* The index directory as the whoosh calls of index_content leave it.  A   *)
(* reader opens the latest TOC and sees the documents of the segments it   *)
(* lists.  index.create_in writes a TOC of generation 0 that lists no      *)
(* segment; writer.commit adds the writer's segment to the segments of the *)
(* TOC the writer was opened on and writes the next generation.            *)
(***************************************************************************)
NoIndex == [exists |-> FALSE, gen |-> 0, docs |-> <<>>]

\* the directory opened as it is, its segments kept
create_in_keeping(t) == [exists |-> TRUE, gen |-> 0, docs |-> t.docs]

create_in(t) == [exists |-> TRUE, gen |-> 0, docs |-> <<>>]

commit(t, buffered) == [exists |-> TRUE, gen |-> t.gen + 1, docs |-> t.docs \o buffered]

Committed(t) == IF t.exists THEN t.docs ELSE <<>>

\* lines 149-156: mkdir if needed, create_in, open the writer
IndexBegin(wbs) ==
    /\ ipc \in {"idle", "done", "failed"}
    /\ prior' = Committed(toc)
    /\ toc' = create_in(toc)
    /\ pending' = <<>>
    /\ todo' = SheetsToAdd(wbs)
    /\ iargs' = wbs
    /\ ipc' = "writing"

\* lines 159-168: one turn of the inner loop
IndexAdd ==
    /\ ipc = "writing"
    /\ Len(todo) > 0
    /\ pending' = Append(pending, Document(todo[1].workbook, todo[1].sheet))
    /\ todo' = Tail(todo)
    /\ UNCHANGED <<toc, ipc, iargs, prior>>

\* writer.add_document raises (the disk is full, the file cannot be written):
\* the exception leaves index_content, nothing is committed
IndexAddFail ==
    /\ ipc = "writing"
    /\ Len(todo) > 0
    /\ ipc' = "failed"
    /\ pending' = <<>>
    /\ UNCHANGED <<toc, todo, iargs, prior>>

\* line 169
IndexCommit ==
    /\ ipc = "writing"
    /\ Len(todo) = 0
    /\ toc' = commit(toc, pending)
    /\ pending' = <<>>
    /\ ipc' = "done"
    /\ UNCHANGED <<todo, iargs, prior>>

\* writer.commit raises before the new TOC is in place
IndexCommitFail ==
    /\ ipc = "writing"
    /\ Len(todo) = 0
    /\ ipc' = "failed"
    /\ pending' = <<>>
    /\ UNCHANGED <<toc, todo, iargs, prior>>

(***************************************************************************)
(* Queries.  The TEXT fields are analysed alike at indexing and at query   *)
(* time: split at the separators, lowercased.  A document's number is its  *)
(* position in the committed documents.                                    *)
(***************************************************************************)
Lower(tok) == IF tok = "BRCA1" THEN "brca1" ELSE tok

RECURSIVE Analyze(_)
Analyze(text) ==
    IF Len(text) = 0 THEN <<>>
    ELSE IF text[1] \in {Tab, Newline} THEN Analyze(Tail(text))
    ELSE <<Lower(text[1])>> \o Analyze(Tail(text))

TermFreq(doc, field, term) ==
    LET a == Analyze(doc[field]) IN Cardinality({i \in 1..Len(a) : a[i] = term})

FieldLen(doc, field) == Len(Analyze(doc[field]))

RECURSIVE SumLen(_, _)
SumLen(docs, field) ==
    IF Len(docs) = 0 THEN 0 ELSE FieldLen(docs[1], field) + SumLen(Tail(docs), field)

\* The BM25F weight of a one-term query (K1 = 1.2, B = 0.75), as a fraction
\* with the factor idf * 2.2, common to all documents, left out:
\*   tf / (tf + 1.2 * (0.25 + 0.75 * fl / avgfl)),  avgfl = total / doc_count
Score(docs, field, term, d) ==
    LET tf == TermFreq(docs[d], field, term)
        total == SumLen(docs, field)
    IN [num |-> 10 * tf * total,
        den |-> 10 * tf * total + 3 * total + 9 * FieldLen(docs[d], field) * Len(docs)]

Higher(a, b) == a.num * b.den > b.num * a.den

\* the order of a result list: higher score first, equal scores by ascending
\* document number
Before(x, y) == Higher(x.score, y.score) \/ (~Higher(y.score, x.score) /\ x.docnum < y.docnum)

RECURSIVE Sorted(_)
Sorted(items) ==
    IF items = {} THEN <<>>
    ELSE LET top == CHOOSE x \in items : \A y \in items \ {x} : Before(x, y)
         IN <<top>> \o Sorted(items \ {top})

Matching(docs, field, term) == {d \in 1..Len(docs) : TermFreq(docs[d], field, term) > 0}

Item(docs, field, term, d) == [docnum |-> d, score |-> Score(docs, field, term, d)]

\* UnlimitedCollector: every matching document
UnlimitedCollector(docs, field, term) ==
    Sorted({Item(docs, field, term, d) : d \in Matching(docs, field, term)})

\* TopCollector._collect: a heap of at most `limit` items; when it is full a
\* document enters only with a score strictly above the heap's least item,
\* which is the lowest score and, among equal scores, the highest number
TopCollect(items, x, limit) ==
    IF Cardinality(items) < limit THEN items \cup {x}
    ELSE LET least == CHOOSE m \in items : \A y \in items \ {m} : Before(y, m)
         IN IF Higher(x.score, least.score) THEN (items \ {least}) \cup {x}
            ELSE items

RECURSIVE TopLoop(_, _, _, _, _, _)
\* the matcher yields the matching documents in ascending document number
TopLoop(docs, field, term, limit, d, items) ==
    IF d > Len(docs) THEN items
    ELSE IF TermFreq(docs[d], field, term) > 0
    THEN TopLoop(docs, field, term, limit, d + 1,
                 TopCollect(items, Item(docs, field, term, d), limit))
    ELSE TopLoop(docs, field, term, limit, d + 1, items)

TopCollector(docs, field, term, limit) ==
    Sorted(TopLoop(docs, field, term, limit, 1, {}))

\* limit=None, the default of search()
NoLimit == 0

\* Searcher.search: whoosh collects everything when the limit is None or not
\* below the document count, and the top `limit` otherwise
Collect(docs, field, term, limit) ==
    IF limit = NoLimit THEN UnlimitedCollector(docs, field, term)
    ELSE IF limit >= Len(docs) THEN UnlimitedCollector(docs, field, term)
    ELSE TopCollector(docs, field, term, limit)

\* searcher.search(query) without a limit uses whoosh's default
DefaultLimit == 10

SearchResult(docs, item) ==
    [filename |-> docs[item.docnum].filename,
     relative_path |-> docs[item.docnum].relative_path,
     sheet_name |-> docs[item.docnum].sheet_name,
     score |-> item.score]

\* search() with the limit dropped on the way to the searcher
search_unlimited(docs, query_str, limit) ==
    LET r == Collect(docs, "content", Lower(query_str), NoLimit)
    IN [i \in 1..Len(r) |-> SearchResult(docs, r[i])]

\* lines 171-185
search(docs, query_str, limit) ==
    LET r == Collect(docs, "content", Lower(query_str), limit)
    IN [i \in 1..Len(r) |-> SearchResult(docs, r[i])]

\* lines 199-213
search_images(docs, query_str) ==
    LET r == Collect(docs, "image_content", Lower(query_str), DefaultLimit)
    IN [i \in 1..Len(r) |-> SearchResult(docs, r[i])]

RECURSIVE FirstN(_, _, _, _)
\* the first n document numbers from d on whose filename term matches *s*
FirstN(docs, s, d, n) ==
    IF d > Len(docs) \/ n = 0 THEN <<>>
    ELSE IF Contains(docs[d].filename, s)
    THEN <<d>> \o FirstN(docs, s, d + 1, n - 1)
    ELSE FirstN(docs, s, d + 1, n)

FileLocation(doc) == [filename |-> doc.filename, relative_path |-> doc.relative_path]

\* lines 215-226: the wildcard *s* over the terms of the filename field only;
\* a wildcard scores every match alike, so the order is by document number
search_by_filename(docs, s) ==
    LET r == FirstN(docs, s, 1, DefaultLimit)
    IN [i \in 1..Len(r) |-> FileLocation(docs[r[i]])]

(***************************************************************************)
(* Values of the observation variables before anything was called.         *)
(***************************************************************************)
NoFile == [name |-> <<>>, dir |-> <<>>, firstOk |-> FALSE, fullOk |-> FALSE, sheets |-> <<>>]
NoCall == [called |-> FALSE, file |-> NoFile, result |-> ReturnedNone]
NoSheet == [name |-> "", grid |-> <<>>, getOk |-> TRUE, readOk |-> TRUE,
            loaderOk |-> TRUE, imgs |-> <<>>]
NoSheetIn == [sheet |-> NoSheet, is_xlsx |-> FALSE, read_only |-> FALSE]
NoSheetOut == [done |-> FALSE, result |-> [raised |-> TRUE]]
NoObs == [seen |-> FALSE, during |-> "idle", query |-> "", results |-> <<>>,
          old |-> <<>>, new |-> <<>>]
NoHits == [op |-> "none", arg |-> <<>>, limit |-> NoLimit, results |-> <<>>, all |-> <<>>]

ExtractIdle == fs = <<>> /\ pd = "idle" /\ workbooks = <<>> /\ wbout = NoCall
SheetIdle == sheetIn = NoSheetIn /\ sheetOut = NoSheetOut
IndexIdle ==
    /\ toc = NoIndex /\ pending = <<>> /\ todo = <<>> /\ ipc = "idle"
    /\ iargs = <<>> /\ prior = <<>>

(***************************************************************************)
(* Inputs.                                                                 *)
(***************************************************************************)
MaxImages == 3
MaxSheets == 2
MaxFiles == 2

ImageTexts == {<<"BRCA1", "confirmed">>, <<"control">>}

Grids == {<<>>,
          <<<<"BRCA1", "variant">>>>,
          <<<<"control", None>>, <<"sample", "control">>>>}

\* images in discovery order; the anchor of the i-th image stands for its
\* coordinate
ImageSeqs(n) ==
    UNION {{[i \in 1..k |-> [coord |-> i, ok |-> f[i][1], text |-> f[i][2]]] :
               f \in [1..k -> BOOLEAN \X ImageTexts]} : k \in 0..n}

SheetInputs(n) ==
    [name : {"Data"}, grid : Grids, getOk : {TRUE}, readOk : BOOLEAN,
     loaderOk : BOOLEAN, imgs : ImageSeqs(n)]

(***************************************************************************)
(* SpecSheet: process_sheet called on any sheet.                           *)
(***************************************************************************)
InitSheet ==
    /\ sheetIn \in [sheet : SheetInputs(MaxImages), is_xlsx : BOOLEAN, read_only : BOOLEAN]
    /\ sheetOut = NoSheetOut
    /\ ExtractIdle /\ IndexIdle /\ obs = NoObs /\ hits = NoHits

ProcessSheet ==
    /\ ~sheetOut.done
    /\ sheetOut' = [done |-> TRUE,
                    result |-> process_sheet(sheetIn.sheet, sheetIn.sheet.name,
                                             sheetIn.is_xlsx, sheetIn.read_only)]
    /\ UNCHANGED <<sheetIn, extractVars, indexVars, obs, hits>>

NextSheet == ProcessSheet

SpecSheet == InitSheet /\ [][NextSheet]_vars

RECURSIVE ReadablePairs(_)
\* the (coordinate, recognizedText) pairs of the images that can be read
ReadablePairs(imgs) ==
    IF Len(imgs) = 0 THEN <<>>
    ELSE (IF imgs[1].ok THEN <<(<<imgs[1].coord, imgs[1].text>>)>> ELSE <<>>)
         \o ReadablePairs(Tail(imgs))

\* C5: when access or OCR fails for one image of a sheet, every other image
\* of the sheet, before and after it, still contributes its pair, and the
\* SheetContent is produced with the sheet's cell text.  Stated for a sheet of
\* a workbook that is not read-only, whose rows and image loader work.
C5_ImageFailureIsLocal ==
    (/\ sheetOut.done
     /\ sheetIn.is_xlsx /\ ~sheetIn.read_only
     /\ sheetIn.sheet.readOk /\ sheetIn.sheet.loaderOk)
    => /\ ~sheetOut.result.raised
       /\ sheetOut.result.content.cell_text = extract_text_from_sheet(sheetIn.sheet)
       /\ sheetOut.result.content.images = ReadablePairs(sheetIn.sheet.imgs)

(***************************************************************************)
(* Spec: a directory is extracted, indexed and queried.                    *)
(***************************************************************************)
NameA == <<"A", ".", "x", "l", "s", "x">>
NameB == <<"B", ".", "x", "l", "s", "x">>
NameC == <<"C", ".", "x", "l", "s">>
NameLock == <<"~", "$", "A", ".", "x", "l", "s", "x">>
GeneDir == <<"g", "/">>

SheetNames == <<"Sheet1", "Data", "Sheet3">>
SheetGrids == <<(<<(<<"BRCA1", "variant">>)>>), (<<(<<"control", "sample">>)>>), (<<>>)>>

\* the k-th sheet of a workbook: obtained or not, readable or not, with one
\* readable image or none
\* the image of the scenario in which OCR recognises "BRCA1 confirmed"
SheetImages == {<<>>, <<[coord |-> 1, ok |-> TRUE, text |-> <<"BRCA1", "confirmed">>]>>}

SheetsAt(k) ==
    {[name |-> SheetNames[((k - 1) % 3) + 1], grid |-> SheetGrids[((k - 1) % 3) + 1],
      getOk |-> f[1], readOk |-> f[2], loaderOk |-> TRUE, imgs |-> im] :
        f \in {<<TRUE, TRUE>>, <<FALSE, TRUE>>, <<TRUE, FALSE>>}, im \in SheetImages}

SheetSeqs(n) ==
    UNION {{f \in [1..k -> UNION {SheetsAt(i) : i \in 1..k}] :
               \A i \in 1..k : f[i] \in SheetsAt(i)} : k \in 0..n}

Files(m) ==
    [name : {NameA, NameB}, dir : {<<>>}, firstOk : {TRUE}, fullOk : {TRUE},
     sheets : SheetSeqs(m)]
    \cup [name : {NameA, NameB}, dir : {<<>>}, firstOk : {FALSE}, fullOk : BOOLEAN,
          sheets : SheetSeqs(1)]
    \cup [name : {NameC}, dir : {GeneDir}, firstOk : {TRUE}, fullOk : {FALSE},
          sheets : SheetSeqs(m)]
    \cup [name : {NameC}, dir : {GeneDir}, firstOk : {FALSE}, fullOk : {FALSE},
          sheets : {<<>>}]
    \cup [name : {NameLock}, dir : {<<>>}, firstOk : {FALSE}, fullOk : {FALSE},
          sheets : {<<>>}]

\* a walk lists every path once
Directories(n, m) ==
    UNION {{f \in [1..k -> Files(m)] :
               \A i, j \in 1..k : i # j => relpath(f[i]) # relpath(f[j])} : k \in 0..n}

Queries == {"BRCA1", "control"}

Init ==
    /\ fs \in Directories(MaxFiles, MaxSheets)
    /\ pd = "idle" /\ workbooks = <<>> /\ wbout = NoCall
    /\ SheetIdle /\ IndexIdle /\ obs = NoObs /\ hits = NoHits

\* process_workbook called on a file of the directory
ProcessWorkbook ==
    /\ pd = "idle"
    /\ \E i \in 1..Len(fs) :
          wbout' = [called |-> TRUE, file |-> fs[i], result |-> process_workbook(fs[i])]
    /\ UNCHANGED <<fs, pd, workbooks, sheetVars, indexVars, obs, hits>>

ProcessDirectory ==
    /\ pd = "idle"
    /\ LET r == process_directory(fs)
       IN /\ pd' = IF r.raised THEN "raised" ELSE "returned"
          /\ workbooks' = r.workbooks
    /\ UNCHANGED <<fs, wbout, sheetVars, indexVars, obs, hits>>

\* the `process` command: index_content(process_directory())
IndexWorkbooks ==
    /\ pd = "returned"
    /\ ipc = "idle"
    /\ IndexBegin(workbooks)
    /\ UNCHANGED <<extractVars, sheetVars, obs, hits>>

Add == IndexAdd /\ UNCHANGED <<extractVars, sheetVars, obs, hits>>

AddFail == IndexAddFail /\ UNCHANGED <<extractVars, sheetVars, obs, hits>>

Commit == IndexCommit /\ UNCHANGED <<extractVars, sheetVars, obs, hits>>

CommitFail == IndexCommitFail /\ UNCHANGED <<extractVars, sheetVars, obs, hits>>

SearchImages ==
    /\ toc.exists
    /\ \E q \in Queries :
          hits' = [op |-> "search_images", arg |-> q, limit |-> NoLimit,
                   results |-> search_images(toc.docs, q), all |-> <<>>]
    /\ UNCHANGED <<extractVars, sheetVars, indexVars, obs>>

Next ==
    \/ ProcessWorkbook
    \/ ProcessDirectory
    \/ IndexWorkbooks
    \/ Add
    \/ AddFail
    \/ Commit
    \/ CommitFail
    \/ SearchImages

Spec == Init /\ [][Next]_vars

(***************************************************************************)
(* The claims about extraction.                                            *)
(***************************************************************************)
IsXlsx(f) == EndsWith(f.name, DotXlsx)

\* the workbook cannot be opened at all
CannotOpen(f) == ~f.firstOk /\ (IsXlsx(f) => ~f.fullOk)

\* the read-only open fails and the full-parse retry succeeds
OpensOnRetry(f) == IsXlsx(f) /\ ~f.firstOk /\ f.fullOk

SheetWorks(sh) == sh.getOk /\ sh.readOk

RECURSIVE OpenablePaths(_)
OpenablePaths(files) ==
    IF Len(files) = 0 THEN <<>>
    ELSE (IF Qualifies(files[1]) /\ ~CannotOpen(files[1])
          THEN <<relpath(files[1])>> ELSE <<>>) \o OpenablePaths(Tail(files))

RECURSIVE WorkingNames(_)
WorkingNames(shs) ==
    IF Len(shs) = 0 THEN <<>>
    ELSE (IF SheetWorks(shs[1]) THEN <<shs[1].name>> ELSE <<>>) \o WorkingNames(Tail(shs))

PathsOf(wbs) == [i \in 1..Len(wbs) |-> wbs[i].relative_path]

NamesOf(contents) == [i \in 1..Len(contents) |-> contents[i].name]

\* C1: when some qualifying workbook cannot be opened at all, process_directory
\* returns normally with a WorkbookContent for exactly the other qualifying
\* files that can be opened, in walk order.
C1_UnopenableWorkbookIsSkipped ==
    (/\ pd # "idle"
     /\ \E i \in 1..Len(fs) : Qualifies(fs[i]) /\ CannotOpen(fs[i]))
    => /\ pd = "returned"
       /\ PathsOf(workbooks) = OpenablePaths(fs)

\* C2: when the read-only open of an .xlsx fails and the full-parse retry
\* succeeds, process_workbook returns a WorkbookContent holding the workbook's
\* sheets, and process_directory goes on with the remaining files.
C2_FullParseRetryYieldsContent ==
    /\ (wbout.called /\ OpensOnRetry(wbout.file))
       => /\ wbout.result.kind = "content"
          /\ NamesOf(wbout.result.wb.sheets) = WorkingNames(wbout.file.sheets)
    /\ (pd # "idle" /\ \E i \in 1..Len(fs) : Qualifies(fs[i]) /\ OpensOnRetry(fs[i]))
       => pd # "raised"

\* C6: when a sheet of an openable workbook fails, also when the sheet object
\* cannot be obtained, process_workbook returns a WorkbookContent whose sheets
\* are the other sheets in their order.  Stated for the workbooks that open at
\* the first attempt, of either format.
C6_FailingSheetIsOmitted ==
    (/\ wbout.called
     /\ IsXlsx(wbout.file) \/ EndsWith(wbout.file.name, DotXls)
     /\ wbout.file.firstOk
     /\ \E k \in 1..Len(wbout.file.sheets) : ~SheetWorks(wbout.file.sheets[k]))
    => /\ wbout.result.kind = "content"
       /\ NamesOf(wbout.result.wb.sheets) = WorkingNames(wbout.file.sheets)

AllReadable(sh) == \A i \in 1..Len(sh.imgs) : sh.imgs[i].ok

HasToken(text, q) == \E i \in 1..Len(text) : Lower(text[i]) = Lower(q)

\* C7: every sheet of a successfully loaded .xlsx whose images can all be read
\* has one (coordinate, recognizedText) pair per embedded image in discovery
\* order, and once the directory is extracted and indexed, search_images for a
\* token of an image's text returns the sheet of that image.
C7_ImagesAreExtractedAndSearchable ==
    /\ (wbout.called /\ IsXlsx(wbout.file) /\ wbout.file.firstOk)
       => /\ wbout.result.kind = "content"
          /\ \A k \in 1..Len(wbout.file.sheets) :
                LET sh == wbout.file.sheets[k]
                IN (SheetWorks(sh) /\ AllReadable(sh))
                   => \E j \in 1..Len(wbout.result.wb.sheets) :
                         /\ wbout.result.wb.sheets[j].name = sh.name
                         /\ wbout.result.wb.sheets[j].images = ReadablePairs(sh.imgs)
    /\ (pd = "returned" /\ ipc = "done" /\ hits.op = "search_images")
       => \A i \in 1..Len(fs) : \A k \in 1..Len(fs[i].sheets) :
             LET sh == fs[i].sheets[k]
             IN (/\ Qualifies(fs[i]) /\ IsXlsx(fs[i]) /\ fs[i].firstOk
                 /\ SheetWorks(sh) /\ AllReadable(sh)
                 /\ \E m \in 1..Len(sh.imgs) : HasToken(sh.imgs[m].text, hits.arg))
                => \E r \in 1..Len(hits.results) :
                      /\ hits.results[r].relative_path = relpath(fs[i])
                      /\ hits.results[r].sheet_name = sh.name

(***************************************************************************)
(* SpecIndex: index_content called again and again on one index directory, *)
(* each call with some list of workbooks, while a reader searches.         *)
(***************************************************************************)
MaxWorkbooks == 3

CatalogNames == <<NameA, NameB, NameC>>
CatalogTexts == <<(<<"BRCA1", "confirmed">>), (<<"control">>)>>

RECURSIVE Repeat(_, _)
Repeat(s, n) == IF n = 0 THEN <<>> ELSE s \o Repeat(s, n - 1)

\* the k-th workbook of the catalog has k % 3 sheets; its j-th sheet has
\* (k + j) % 3 images
CatalogSheet(k, j) ==
    [name |-> SheetNames[((j - 1) % 3) + 1],
     cell_text |-> extract_text_from_sheet([grid |-> SheetGrids[((j - 1) % 3) + 1]]),
     images |-> [i \in 1..((k + j) % 3) |-> <<i, CatalogTexts[((i + j) % 2) + 1]>>]]

CatalogWorkbook(k) ==
    [filename |-> CatalogNames[((k - 1) % 3) + 1],
     relative_path |-> Repeat(GeneDir, (k - 1) \div 3) \o CatalogNames[((k - 1) % 3) + 1],
     sheets |-> [j \in 1..(k % 3) |-> CatalogSheet(k, j)]]

RECURSIVE Pick(_, _)
\* the workbooks of the catalog whose number is in `which`, ascending
Pick(which, k) ==
    IF k > MaxWorkbooks THEN <<>>
    ELSE (IF k \in which THEN <<CatalogWorkbook(k)>> ELSE <<>>) \o Pick(which, k + 1)

WorkbookLists == {Pick(which, 1) : which \in SUBSET (1..MaxWorkbooks)}

\* the documents index_content is to store for these workbooks
DocumentsOf(wbs) ==
    LET todoAll == SheetsToAdd(wbs)
    IN [n \in 1..Len(todoAll) |-> Document(todoAll[n].workbook, todoAll[n].sheet)]

InitIndex ==
    /\ ExtractIdle /\ SheetIdle /\ IndexIdle /\ obs = NoObs /\ hits = NoHits

Rebuild ==
    /\ \E wbs \in WorkbookLists : IndexBegin(wbs)
    /\ obs' = NoObs
    /\ UNCHANGED <<extractVars, sheetVars, hits>>

RebuildAdd == IndexAdd /\ UNCHANGED <<extractVars, sheetVars, obs, hits>>

RebuildAddFail == IndexAddFail /\ UNCHANGED <<extractVars, sheetVars, obs, hits>>

RebuildCommit == IndexCommit /\ UNCHANGED <<extractVars, sheetVars, obs, hits>>

RebuildCommitFail == IndexCommitFail /\ UNCHANGED <<extractVars, sheetVars, obs, hits>>

\* another process opens the directory and calls search(q); index.open_dir
\* raises when the directory holds no TOC
ReaderSearch ==
    /\ toc.exists
    /\ \E q \in Queries :
          obs' = [seen |-> TRUE, during |-> ipc, query |-> q,
                  results |-> search(toc.docs, q, NoLimit),
                  old |-> search(prior, q, NoLimit),
                  new |-> search(DocumentsOf(iargs), q, NoLimit)]
    /\ UNCHANGED <<extractVars, sheetVars, indexVars, hits>>

NextIndex ==
    \/ Rebuild
    \/ RebuildAdd
    \/ RebuildAddFail
    \/ RebuildCommit
    \/ RebuildCommitFail
    \/ ReaderSearch

SpecIndex == InitIndex /\ [][NextIndex]_vars

\* C3: a reader that searches at any point of a rebuild of a directory that
\* holds a committed generation observes the prior generation's documents or
\* the new generation's documents, never an empty index, a subset or a mix.
C3_ReaderSeesOldOrNew ==
    (obs.seen /\ obs.during \in {"writing", "done"} /\ prior # <<>>)
    => (obs.results = obs.old \/ obs.results = obs.new)

\* C4: when index_content fails before writer.commit() completes, the index
\* directory still holds the prior committed generation with exactly the
\* documents it had before the call.
C4_FailedRebuildKeepsPrior ==
    ipc = "failed" => (toc.exists /\ toc.docs = prior)

RECURSIVE SplitOn(_, _)
\* text.split(sep): the parts of a token sequence between the separators
SplitOn(text, sep) ==
    IF \A i \in 1..Len(text) : text[i] # sep THEN <<text>>
    ELSE LET i == CHOOSE x \in 1..Len(text) :
                     text[x] = sep /\ \A y \in 1..(x - 1) : text[y] # sep
         IN <<SubSeq(text, 1, i - 1)>> \o SplitOn(SubSeq(text, i + 1, Len(text)), sep)

RECURSIVE SheetCount(_)
SheetCount(wbs) == IF Len(wbs) = 0 THEN 0 ELSE Len(wbs[1].sheets) + SheetCount(Tail(wbs))

\* the stored document of sheet k of workbook w has the workbook's filename
\* and path, the sheet's name and cell text, and the sheet's image texts
\* between newlines
IsDocumentOf(doc, workbook, sheet) ==
    /\ doc.filename = workbook.filename
    /\ doc.relative_path = workbook.relative_path
    /\ doc.sheet_name = sheet.name
    /\ doc.content = sheet.cell_text
    /\ IF Len(sheet.images) = 0 THEN doc.image_content = <<>>
       ELSE SplitOn(doc.image_content, Newline)
               = [i \in 1..Len(sheet.images) |-> sheet.images[i][2]]

\* C8: after any sequence of index_content calls, once the last call has
\* returned, the stored documents are exactly one per sheet of the workbooks
\* passed to that call, in their order; no document of an earlier call
\* survives, and the same workbooks give the same documents again.
C8_IndexIsReplacedWholesale ==
    ipc = "done"
    => /\ toc.exists
       /\ Len(toc.docs) = SheetCount(iargs)
       /\ \A w \in 1..Len(iargs) : \A k \in 1..Len(iargs[w].sheets) :
             IsDocumentOf(toc.docs[SheetCount(SubSeq(iargs, 1, w - 1)) + k],
                          iargs[w], iargs[w].sheets[k])
       /\ prior = DocumentsOf(iargs) => toc.docs = prior

C8_Witness ==
    /\ ipc = "done"
    /\ prior # <<>>
    /\ toc.docs # prior
    /\ \E n \in 1..Len(toc.docs) : Len(SplitOn(toc.docs[n].image_content, Newline)) > 1

(***************************************************************************)
(* SpecSearch: queries against a committed index.                          *)
(***************************************************************************)
MaxDocs == 3
MaxLimit == 3

FileA == [filename |-> NameA, relative_path |-> NameA]
FileC == [filename |-> NameC, relative_path |-> GeneDir \o NameC]

\* the sheets a document is made of: the workbook, and the cell text as
\* extract_text_from_sheet renders it
IndexedSheets ==
    {<<FileA, <<"BRCA1">> >>,
     <<FileC, <<"BRCA1", Tab, "BRCA1">> >>,
     <<FileA, <<"BRCA1", Tab, "control">> >>,
     <<FileC, <<"control">> >>,
     <<FileA, <<"BRCA1", Tab, "control", Newline, "control", Tab, "sample">> >>}

IndexedDoc(n, file, content) ==
    [filename |-> file.filename, relative_path |-> file.relative_path,
     sheet_name |-> SheetNames[((n - 1) % 3) + 1],
     content |-> content, image_content |-> <<>>]

SearchIndexes(m) ==
    UNION {{[n \in 1..k |-> IndexedDoc(n, f[n][1], f[n][2])] :
               f \in [1..k -> IndexedSheets]} : k \in 0..m}

FilenameQueries == {NameA, <<"g">>, <<"x", "l", "s">>, <<"C", ".">>}

InitSearch ==
    /\ toc \in [exists : {TRUE}, gen : {1}, docs : SearchIndexes(MaxDocs)]
    /\ pending = <<>> /\ todo = <<>> /\ ipc = "idle" /\ iargs = <<>> /\ prior = <<>>
    /\ ExtractIdle /\ SheetIdle /\ obs = NoObs /\ hits = NoHits

\* search(q, limit), and search(q) on the same index beside it
Search ==
    /\ \E q \in Queries : \E limit \in {NoLimit} \cup (1..MaxLimit) :
          hits' = [op |-> "search", arg |-> q, limit |-> limit,
                   results |-> search(toc.docs, q, limit),
                   all |-> search(toc.docs, q, NoLimit)]
    /\ UNCHANGED <<extractVars, sheetVars, indexVars, obs>>

SearchByFilename ==
    /\ \E f \in FilenameQueries :
          hits' = [op |-> "search_by_filename", arg |-> f, limit |-> NoLimit,
                   results |-> search_by_filename(toc.docs, f), all |-> <<>>]
    /\ UNCHANGED <<extractVars, sheetVars, indexVars, obs>>

NextSearch ==
    \/ Search
    \/ SearchByFilename

SpecSearch == InitSearch /\ [][NextSearch]_vars

\* C9: search_by_filename(s) returns the location of every indexed document
\* whose filename or relative_path contains s, however many match.
C9_FilenameSearchFindsEveryMatch ==
    hits.op = "search_by_filename"
    => \A d \in 1..Len(toc.docs) :
          (Contains(toc.docs[d].filename, hits.arg)
           \/ Contains(toc.docs[d].relative_path, hits.arg))
          => \E r \in 1..Len(hits.results) : hits.results[r] = FileLocation(toc.docs[d])

SameDocument(result, doc) ==
    /\ result.filename = doc.filename
    /\ result.relative_path = doc.relative_path
    /\ result.sheet_name = doc.sheet_name

\* C10: search(query, limit=k), k >= 1, returns at most k results, and they
\* are the first min(k, n) of the n results of search(query) on the same
\* index, in the same order; search(query) returns all matching documents.
C10_LimitedSearchIsPrefix ==
    hits.op = "search"
    => /\ hits.limit # NoLimit
          => /\ Len(hits.results) <= hits.limit
             /\ hits.results = SubSeq(hits.all, 1, Min(hits.limit, Len(hits.all)))
       /\ hits.limit = NoLimit
          => /\ Len(hits.results)
                  = Cardinality({d \in 1..Len(toc.docs) :
                                    HasToken(toc.docs[d].content, hits.arg)})
             /\ \A d \in 1..Len(toc.docs) :
                   HasToken(toc.docs[d].content, hits.arg)
                   => \E r \in 1..Len(hits.results) :
                         SameDocument(hits.results[r], toc.docs[d])

\* a limit that cuts the ranking between two documents of equal score
C10_Witness ==
    /\ hits.op = "search"
    /\ hits.limit # NoLimit
    /\ Len(hits.all) > hits.limit
    /\ Len(hits.results) = hits.limit
    /\ hits.all[hits.limit].score = hits.all[hits.limit + 1].score
    /\ hits.limit > 1
    /\ hits.all[1].score # hits.all[hits.limit].score

====
